---- MODULE Spec2Model ----
(***************************************************************************)
(* Self-play orchestration of lc0 (src/selfplay/game.cc):                  *)
(*   - SelfPlayGame: constructor, Play(), Abort(), WriteTrainingData()     *)
(*   - ValueSelfPlayGames: constructor, Play(), Abort()                    *)
(* The search engine, the network, the tablebase and the chess rules are   *)
(* collaborators whose code is outside game.cc; they are modelled by what  *)
(* the specification says of them, over a small counting game.             *)
(***************************************************************************)
EXTENDS Integers, Sequences, FiniteSets, TLC

(***************************************************************************)
(* Bounds of the model.                                                    *)
(***************************************************************************)
\* The counting game stands in for chess: a move adds its number to a running
\* total; reaching Target exactly, from the second ply on, wins for the side
\* that moved; overshooting it is a draw.
Target == 3
\* Number of distinct moves; a position has at most this many edges.
NumMoves == 3

\* The moves as the edges of a node hold them: seen from the side to move.
Moves == 1..NumMoves
NoMove == 0

\* Move::Mirror(): the same move seen from the other side.
Mirror(m) == 0 - m

\* Edge::GetMove(as_opponent): the move of an edge, mirrored on request; with
\* as_opponent = "black is to move" it is the move as the board shows it.
EdgeGetMove(m, as_opponent) == IF as_opponent THEN Mirror(m) ELSE m

Decided == {"WHITE_WON", "BLACK_WON", "DRAW"}
GameResults == Decided \cup {"UNDECIDED"}

(***************************************************************************)
(* Position history (chess/position.cc, not part of game.cc).              *)
(* A history is [black |-> side to move of the start position,             *)
(*               moves |-> the moves made since].                          *)
(***************************************************************************)
RECURSIVE Total(_)
Total(ms) == IF ms = <<>> THEN 0 ELSE Head(ms) + Total(Tail(ms))

HistIsBlackToMove(h) == (h.black = (Len(h.moves) % 2 = 0))

\* PositionHistory::GetLength(): number of positions, the start included.
GetLength(h) == Len(h.moves) + 1

\* NodeTree::GetPlyCount(): parity follows the side to move.
GetPlyCount(h) == (IF h.black THEN 1 ELSE 0) + Len(h.moves)

\* PositionHistory::ComputeGameResult(): a terminal that is not a draw is won by
\* the side that made the last move; no game is won on its first ply.
ComputeGameResult(h) ==
  IF Len(h.moves) >= 2 /\ Total(h.moves) = Target
    THEN (IF HistIsBlackToMove(h) THEN "WHITE_WON" ELSE "BLACK_WON")
  ELSE IF Total(h.moves) > Target THEN "DRAW"
  ELSE "UNDECIDED"

\* ChessBoard::GenerateLegalMoves()
LegalMoves(h) ==
  IF ComputeGameResult(h) # "UNDECIDED" THEN {}
  ELSE {m \in Moves : Total(h.moves) + m <= Target + 1}

Append1(h, m) == [h EXCEPT !.moves = Append(@, m)]

(***************************************************************************)
(* NodeTree: the position history and the visit counts N of the edges of   *)
(* the current head (empty until a search expands the head).               *)
(***************************************************************************)
NoEdges == [m \in {} |-> 0]

\* NodeTree::ResetToPosition(fen, {})
ResetToPosition(black) == [hist |-> [black |-> black, moves |-> <<>>], N |-> NoEdges]

\* NodeTree::MakeMove(): takes the move as the board shows it and mirrors it
\* when black is to move; the head moves to the child, whose edges the model
\* does not carry over.
MakeMove(t, m) ==
  [hist |-> Append1(t.hist, IF HistIsBlackToMove(t.hist) THEN Mirror(m) ELSE m),
   N |-> NoEdges]

\* NodeTree::TrimTreeAtHead()
TrimTreeAtHead(t) == [t EXCEPT !.N = NoEdges]

RECURSIVE MakeMoves(_, _)
MakeMoves(t, ms) == IF ms = <<>> THEN t ELSE MakeMoves(MakeMove(t, Head(ms)), Tail(ms))

(***************************************************************************)
(* Player options (PopulateUciParams): the values a player was configured  *)
(* with.  Percentages are in percent, visit counts in visits.              *)
(***************************************************************************)
\* input_format is the player's network capability
\* (network->GetCapabilities().input_format); network names the weights.
DefaultOptions ==
  [ReuseTree |-> FALSE, ResignWDLStyle |-> FALSE, ResignPercentage |-> 0,
   ResignEarliestMove |-> 0, MinimumAllowedVisits |-> 0,
   input_format |-> "INPUT_CLASSICAL_112_PLANE", network |-> "flat"]

PlayerOptions ==
  { DefaultOptions,
    [ReuseTree |-> TRUE, ResignWDLStyle |-> FALSE, ResignPercentage |-> 10,
     ResignEarliestMove |-> 2, MinimumAllowedVisits |-> 20,
     input_format |-> "INPUT_112_WITH_CANONICALIZATION", network |-> "flat"],
    [ReuseTree |-> FALSE, ResignWDLStyle |-> TRUE, ResignPercentage |-> 5,
     ResignEarliestMove |-> 1, MinimumAllowedVisits |-> 0,
     input_format |-> "INPUT_CLASSICAL_112_PLANE", network |-> "flat"],
    [ReuseTree |-> FALSE, ResignWDLStyle |-> TRUE, ResignPercentage |-> 60,
     ResignEarliestMove |-> 3, MinimumAllowedVisits |-> 20,
     input_format |-> "INPUT_112_WITH_CANONICALIZATION", network |-> "flat"] }

\* Openings: start side and forced prefix, its moves as the board shows them.
Openings ==
  { [black |-> FALSE, moves |-> <<>>],
    [black |-> FALSE, moves |-> <<1>>],
    [black |-> TRUE, moves |-> <<-2>>] }

(***************************************************************************)
(* Search results (mcts/search.cc, not part of game.cc).                   *)
(* GetBestEval(): wl and d in hundredths, ml in the float encoding below.  *)
(***************************************************************************)
\* Single-precision values are integers counting units of 2^-27.
Unit == 2^27

Evals ==
  { [wl |-> 96, d |-> 2, ml |-> 4 * Unit],      \* w .97  d .02  l .01
    [wl |-> -96, d |-> 2, ml |-> 0],            \* w .01  d .02  l .97
    [wl |-> 0, d |-> 98, ml |-> 4 * Unit],      \* w .01  d .98  l .01
    [wl |-> 0, d |-> 0, ml |-> 0],              \* w .50  d .00  l .50
    [wl |-> -40, d |-> 50, ml |-> 0],           \* w .05  d .50  l .45
    [wl |-> 0, d |-> 40, ml |-> 0],             \* w .30  d .40  l .30
    [wl |-> -80, d |-> 0, ml |-> 4 * Unit],     \* centered .10
    [wl |-> -82, d |-> 0, ml |-> 0],            \* centered .09
    [wl |-> -100, d |-> 0, ml |-> 0] }          \* centered .00

\* Visit counts a finished search may leave on the edges of the head.
VisitLevels == {10, 50}
VisitProfiles(h) == [LegalMoves(h) -> VisitLevels]

NoSearch == [state |-> "none", tree |-> 0, aborted |-> FALSE]

\* Play()'s best_eval outside a turn
NoEval == [wl |-> 0, d |-> 0, ml |-> -1]

VARIABLES
  options_,        \* options_[0], options_[1]: the two players' options
  opening,         \* the Opening the game was constructed from
  tree_,           \* tree_[i]: which NodeTree object player i points to
  nodetree,        \* the NodeTree objects
  training,        \* Play()'s argument
  enable_resign,   \* Play()'s argument
  pc,              \* where Play() is
  blacks_move,     \* Play()'s local
  move,            \* Play()'s local: the candidate of the acceptance loop
  calls,           \* what the last iteration of the acceptance loop called
  best_eval,       \* Play()'s local: GetBestEval() of this turn's search
  abort_, mutex_, search_,
  game_result_, move_count_, training_data_,
  apc,             \* where Abort() is
  \* ValueSelfPlayGames
  trees_, results_, syzygy_tb_,
  vpc,             \* where ValueSelfPlayGames::Play() is
  all_done,        \* Play()'s local
  probes,          \* Play()'s locals state and wdl: the probe of each game
  comp,            \* Play()'s local: the NetworkComputation of the wave
  comp_idx,        \* Play()'s local
  reads,           \* the GetQVal calls made on comp: index, game and position
  \* WriteTrainingData
  wpc,             \* where WriteTrainingData() is
  m_estimate,      \* WriteTrainingData()'s local
  written          \* the chunks handed to writer->WriteChunk, in call order

vars == <<options_, opening, tree_, nodetree, training, enable_resign, pc,
          blacks_move, move, calls, best_eval, abort_, mutex_, search_,
          game_result_, move_count_, training_data_, apc,
          trees_, results_, syzygy_tb_, vpc, all_done, probes, comp, comp_idx,
          reads, wpc, m_estimate, written>>

\* What the actions of SelfPlayGame::Play and Abort leave alone.
value == <<trees_, results_, syzygy_tb_, vpc, all_done, probes, comp,
           comp_idx, reads>>
writer == <<wpc, m_estimate, written>>

config == <<options_, opening, tree_, training, enable_resign>>

Tree(i) == nodetree[tree_[i]]

NoTablebase == [present |-> FALSE, max_cardinality |-> 0]
NoComputation == [net |-> "none", inputs |-> <<>>, outputs |-> <<>>]
\* probe_wdl was not called
NoProbe == [state |-> "none", wdl |-> "none"]

\* No ValueSelfPlayGames object exists.
ValueIdle ==
  /\ trees_ = <<>>
  /\ results_ = <<>>
  /\ syzygy_tb_ = NoTablebase
  /\ vpc = "off"
  /\ all_done = TRUE
  /\ probes = <<>>
  /\ comp = NoComputation
  /\ comp_idx = 0
  /\ reads = <<>>

\* WriteTrainingData() has not been called.
WriterIdle ==
  /\ wpc = "off"
  /\ m_estimate = 0
  /\ written = <<>>

(***************************************************************************)
(* SelfPlayGame::SelfPlayGame                                              *)
(***************************************************************************)
ConstructTrees(shared_tree, op) ==
  LET t0 == MakeMoves(ResetToPosition(op.black), op.moves)
      t1 == IF shared_tree
              THEN ResetToPosition(op.black)   \* object 1 is never pointed to
              ELSE MakeMoves(ResetToPosition(op.black), op.moves)
  IN [i \in 0..1 |-> IF i = 0 THEN t0 ELSE t1]

Init ==
  /\ options_ \in [0..1 -> PlayerOptions]
  /\ opening \in Openings
  /\ \E shared_tree \in BOOLEAN :
       /\ tree_ = [i \in 0..1 |-> IF shared_tree THEN 0 ELSE i]
       /\ nodetree = ConstructTrees(shared_tree, opening)
  /\ training \in BOOLEAN
  /\ enable_resign \in BOOLEAN
  /\ pc = "init"
  /\ blacks_move = FALSE
  /\ move = NoMove
  /\ calls = <<>>
  /\ best_eval = NoEval
  /\ abort_ = FALSE
  /\ mutex_ = "free"
  /\ search_ = NoSearch
  /\ game_result_ = "UNDECIDED"
  /\ move_count_ = 0
  /\ training_data_ = <<>>
  /\ apc = "idle"
  /\ ValueIdle
  /\ WriterIdle

(***************************************************************************)
(* SelfPlayGame::Play                                                      *)
(***************************************************************************)
\* line 237
Idx == IF blacks_move THEN 1 ELSE 0

EndgameStop_Inverted(result) == result = "UNDECIDED"

\* line 234: "If endgame, stop."
EndgameStop(result) == result # "UNDECIDED"

\* lines 238-240
TrimUnlessReuse(o, t) == IF ~o.ReuseTree THEN TrimTreeAtHead(t) ELSE t

\* line 244: the abort flag as tested under the mutex
AbortSeenUnderLock == abort_

AbortSeenAfterSearch_Never == FALSE

\* line 271: the abort flag as tested after RunBlocking
AbortSeenAfterSearch == abort_

\* Node::GetV5TrainingData (mcts/node.cc): the fields WriteTrainingData reads
\* or overwrites.  With the canonical input format the side to move is bit 7
\* of invariance_info and side_to_move_or_enpassant holds the en passant mask.
GetV5TrainingData(game_result, h, input_format, best_m) ==
  LET black == HistIsBlackToMove(h)
      canonical == input_format = "INPUT_112_WITH_CANONICALIZATION"
  IN [input_format |-> input_format,
      side_to_move_or_enpassant |-> IF canonical THEN 0 ELSE (IF black THEN 1 ELSE 0),
      invariance_info |-> IF canonical /\ black THEN 128 ELSE 0,
      best_m |-> best_m,
      result |-> IF game_result \in {"UNDECIDED", "DRAW"} THEN 0
                 ELSE IF (game_result = "BLACK_WON") = black THEN 1
                 ELSE -1,
      plies_left |-> 0]

\* Probabilities in units of 1/200, so that (wl + 1) / 2 and pct / 100 are exact.
\* lines 287-288
CenteredEval(e) == e.wl + 100
\* line 291
BestW(e) == e.wl + 100 - e.d
\* line 292
BestD(e) == 2 * e.d
BestL_SignError(e) == BestW(e) + 2 * e.wl

\* line 293
BestL(e) == BestW(e) - 2 * e.wl
\* line 300
ResignPct(o) == 2 * o.ResignPercentage
\* line 290
MoveNumber(h) == (GetLength(h) \div 2) + 1

ResignAllowed_Late(o, enable, move_number) ==
  enable /\ move_number > o.ResignEarliestMove

\* lines 297-298
ResignAllowed(o, enable, move_number) ==
  enable /\ move_number >= o.ResignEarliestMove

\* lines 302-316: the result a margin-mode resignation gives, UNDECIDED when
\* none happens
ResignWDL(o, e, black) ==
  LET threshold == 200 - ResignPct(o) IN
  IF BestW(e) > threshold
    THEN (IF black THEN "BLACK_WON" ELSE "WHITE_WON")
  ELSE IF BestL(e) > threshold
    THEN (IF black THEN "WHITE_WON" ELSE "BLACK_WON")
  ELSE IF BestD(e) > threshold THEN "DRAW"
  ELSE "UNDECIDED"

ResignAbsolute_Inclusive(o, e, black) ==
  IF CenteredEval(e) <= ResignPct(o)
    THEN (IF black THEN "WHITE_WON" ELSE "BLACK_WON")
    ELSE "UNDECIDED"

\* lines 318-322: the same in absolute mode
ResignAbsolute(o, e, black) ==
  IF CenteredEval(e) < ResignPct(o)
    THEN (IF black THEN "WHITE_WON" ELSE "BLACK_WON")
    ELSE "UNDECIDED"

\* lines 299-323
ResignResult(o, e, black) ==
  IF o.ResignWDLStyle THEN ResignWDL(o, e, black) ELSE ResignAbsolute(o, e, black)

\* lines 329-334
MaxN(N) == IF DOMAIN N = {} THEN 0
           ELSE CHOOSE n \in {N[m] : m \in DOMAIN N} :
                  \A m \in DOMAIN N : N[m] <= n
\* lines 330, 335-337
CurN(N, m, black) ==
  IF \E e \in DOMAIN N : EdgeGetMove(e, black) = m
    THEN N[CHOOSE e \in DOMAIN N : EdgeGetMove(e, black) = m]
    ELSE 0

AcceptMove_Both(cur_n, max_n, o) ==
  cur_n = max_n /\ cur_n >= o.MinimumAllowedVisits

\* lines 341-343
AcceptMove(cur_n, max_n, o) ==
  cur_n = max_n \/ cur_n >= o.MinimumAllowedVisits

\* line 227
PlayCall ==
  /\ pc = "init"
  /\ blacks_move' = HistIsBlackToMove(Tree(0).hist)
  /\ pc' = "top"
  /\ UNCHANGED <<config, value, writer, nodetree, move, calls, best_eval, abort_, mutex_, search_,
                 game_result_, move_count_, training_data_, apc>>

\* lines 230-240
PlayTop ==
  /\ pc = "top"
  /\ IF abort_
       THEN /\ pc' = "done"
            /\ UNCHANGED <<game_result_, nodetree>>
       ELSE LET result == ComputeGameResult(Tree(0).hist) IN
            /\ game_result_' = result
            /\ IF EndgameStop(result)
                 THEN pc' = "done" /\ UNCHANGED nodetree
                 ELSE /\ pc' = "lock"
                      /\ nodetree' = [nodetree EXCEPT ![tree_[Idx]] =
                                        TrimUnlessReuse(options_[Idx], @)]
  /\ UNCHANGED <<config, value, writer, blacks_move, move, calls, best_eval, abort_, mutex_, search_,
                 move_count_, training_data_, apc>>

\* line 243
PlayLock ==
  /\ pc = "lock"
  /\ mutex_ = "free"
  /\ mutex_' = "play"
  /\ pc' = "locked"
  /\ UNCHANGED <<config, value, writer, nodetree, blacks_move, move, calls, best_eval, abort_, search_,
                 game_result_, move_count_, training_data_, apc>>

\* lines 244-265
PlayConstructSearch ==
  /\ pc = "locked"
  /\ IF AbortSeenUnderLock
       THEN pc' = "done" /\ UNCHANGED search_
       ELSE /\ search_' = [state |-> "created", tree |-> Idx, aborted |-> FALSE]
            /\ pc' = "run"
  /\ mutex_' = "free"
  /\ UNCHANGED <<config, value, writer, nodetree, blacks_move, move, calls, best_eval, abort_,
                 game_result_, move_count_, training_data_, apc>>

\* line 268: RunBlocking is entered
PlayRunBlocking ==
  /\ pc = "run"
  /\ search_' = [search_ EXCEPT !.state = "running"]
  /\ pc' = "blocked"
  /\ UNCHANGED <<config, value, writer, nodetree, blacks_move, move, calls, best_eval, abort_, mutex_,
                 game_result_, move_count_, training_data_, apc>>

\* line 268: RunBlocking returns, because the search was aborted or because a
\* stopper fired; only then have the edges of the head their visit counts.
SearchReturns ==
  /\ pc = "blocked"
  /\ IF search_.aborted
       THEN /\ search_' = [search_ EXCEPT !.state = "unwound"]
            /\ UNCHANGED nodetree
       ELSE /\ search_' = [search_ EXCEPT !.state = "stopped"]
            /\ \E N \in VisitProfiles(Tree(search_.tree).hist) :
                 nodetree' = [nodetree EXCEPT ![tree_[search_.tree]].N = N]
  /\ pc' = "after"
  /\ UNCHANGED <<config, value, writer, blacks_move, move, calls, best_eval, abort_, mutex_,
                 game_result_, move_count_, training_data_, apc>>

\* lines 269-324
PlayAfterSearch ==
  /\ pc = "after"
  /\ move_count_' = move_count_ + 1
  /\ IF AbortSeenAfterSearch
       THEN /\ pc' = "done"
            /\ UNCHANGED <<training_data_, game_result_, move, calls, best_eval>>
       ELSE \E eval \in Evals :
              LET o == options_[Idx]
                  record == GetV5TrainingData("UNDECIDED", Tree(Idx).hist,
                                              o.input_format, eval.ml)
                  move_number == MoveNumber(Tree(0).hist)
                  resigned == IF ResignAllowed(o, enable_resign, move_number)
                                THEN ResignResult(o, eval, blacks_move)
                                ELSE "UNDECIDED"
              IN /\ best_eval' = eval
                 /\ training_data_' = IF training
                                        THEN Append(training_data_, record)
                                        ELSE training_data_
                 /\ IF resigned # "UNDECIDED"
                      THEN /\ game_result_' = resigned
                           /\ pc' = "done"
                           /\ UNCHANGED <<move, calls>>
                      ELSE /\ pc' = "pick"
                           /\ move' = NoMove
                           /\ calls' = <<>>
                           /\ UNCHANGED game_result_
  /\ UNCHANGED <<config, value, writer, nodetree, blacks_move, abort_, mutex_, search_, apc>>

(***************************************************************************)
(* SelfPlayGame::GetMoves                                                  *)
(***************************************************************************)
RECURSIVE Reverse(_)
Reverse(s) == IF s = <<>> THEN <<>> ELSE Append(Reverse(Tail(s)), Head(s))

\* lines 369-372: the moves of the edges met on the way from the head back to
\* the game-begin node; the parent links of tree_[0] lead through the moves
\* of its history.
PathToBegin(t) == Reverse(t.hist.moves)

FlipIfWhiteToMove_Never(m, black_to_move) == m

\* lines 380-381
FlipIfWhiteToMove(m, black_to_move) ==
  IF ~black_to_move THEN Mirror(m) ELSE m

\* lines 375-383: moves is emptied from its back, pos follows the game.  The
\* counting game has no castling, so GetLegacyMove (line 378) leaves every
\* move as it is.
RECURSIVE ReplayFrom(_, _)
ReplayFrom(moves, pos) ==
  IF moves = <<>> THEN <<>>
  ELSE LET m == moves[Len(moves)]
           next == Append1(pos, m)
       IN <<FlipIfWhiteToMove(m, HistIsBlackToMove(next))>>
            \o ReplayFrom(SubSeq(moves, 1, Len(moves) - 1), next)

\* lines 367-385
GetMoves(t) ==
  ReplayFrom(PathToBegin(t), [black |-> t.hist.black, moves |-> <<>>])

\* Search::GetBestMove(): any legal move, as the board shows it.
GetBestMove(t) ==
  {EdgeGetMove(e, HistIsBlackToMove(t.hist)) : e \in LegalMoves(t.hist)}

\* line 209
OrigFen == [black |-> opening.black]

ReportDiscard_Always(result) == TRUE

\* line 353: "Ensure not to discard games that are already decided."
ReportDiscard(result) == result = "UNDECIDED"

\* lines 346-358: the calls of an iteration that rejects candidate m
RejectCalls(t, m) ==
  LET move_for_history == IF HistIsBlackToMove(t.hist) THEN Mirror(m) ELSE m
      history_copy == Append1(t.hist, move_for_history)
      move_list_to_discard == Append(GetMoves(Tree(0)), m)
  IN (IF ReportDiscard(ComputeGameResult(history_copy))
        THEN <<[fn |-> "discarded_callback", fen |-> OrigFen,
                moves |-> move_list_to_discard]>>
        ELSE <<>>)
     \o <<[fn |-> "ResetBestMove"]>>

\* lines 327-359: one iteration of the acceptance loop.  A rejected candidate
\* stays in `move` while ResetBestMove() makes the search choose again.
PlayPickMove ==
  /\ pc = "pick"
  /\ \E best \in GetBestMove(Tree(Idx)) :
       LET N == Tree(Idx).N
           cur_n == CurN(N, best, HistIsBlackToMove(Tree(Idx).hist))
       IN
       /\ move' = best
       /\ IF AcceptMove(cur_n, MaxN(N), options_[Idx])
            THEN pc' = "make0" /\ calls' = <<>>
            ELSE pc' = "pick" /\ calls' = RejectCalls(Tree(Idx), best)
  /\ UNCHANGED <<config, value, writer, nodetree, blacks_move, best_eval, abort_, mutex_,
                 search_, game_result_, move_count_, training_data_, apc>>

\* line 361
PlayMakeMove0 ==
  /\ pc = "make0"
  /\ nodetree' = [nodetree EXCEPT ![tree_[0]] = MakeMove(@, move)]
  /\ pc' = "make1"
  /\ UNCHANGED <<config, value, writer, blacks_move, move, calls, best_eval, abort_, mutex_, search_,
                 game_result_, move_count_, training_data_, apc>>

SecondTreeMove_Skipped(t, m) == t

\* line 362: the second tree gets the move when it is another object
SecondTreeMove(t, m) == IF tree_[0] # tree_[1] THEN MakeMove(t, m) ELSE t

\* lines 362-363
PlayMakeMove1 ==
  /\ pc = "make1"
  /\ nodetree' = [nodetree EXCEPT ![tree_[1]] = SecondTreeMove(@, move)]
  /\ blacks_move' = ~blacks_move
  /\ pc' = "top"
  \* move and best_eval are locals of the loop body
  /\ move' = NoMove
  /\ calls' = <<>>
  /\ best_eval' = NoEval
  /\ UNCHANGED <<config, value, writer, abort_, mutex_, search_,
                 game_result_, move_count_, training_data_, apc>>

(***************************************************************************)
(* SelfPlayGame::Abort, called from another thread                         *)
(***************************************************************************)
\* line 405
AbortLock ==
  /\ pc # "off"
  /\ apc = "idle"
  /\ mutex_ = "free"
  /\ mutex_' = "abort"
  /\ apc' = "locked"
  /\ UNCHANGED <<config, value, writer, nodetree, pc, blacks_move, move, calls, best_eval, abort_, search_,
                 game_result_, move_count_, training_data_>>

\* line 406
AbortSetFlag ==
  /\ apc = "locked"
  /\ abort_' = TRUE
  /\ apc' = "set"
  /\ UNCHANGED <<config, value, writer, nodetree, pc, blacks_move, move, calls, best_eval, mutex_, search_,
                 game_result_, move_count_, training_data_>>

ForwardAbort_Dropped(s) == s

\* line 407
ForwardAbort(s) == IF s.state # "none" THEN [s EXCEPT !.aborted = TRUE] ELSE s

\* lines 407-408
AbortForward ==
  /\ apc = "set"
  /\ search_' = ForwardAbort(search_)
  /\ mutex_' = "free"
  /\ apc' = "returned"
  /\ UNCHANGED <<config, value, writer, nodetree, pc, blacks_move, move, calls, best_eval, abort_,
                 game_result_, move_count_, training_data_>>

Next ==
  \/ PlayCall
  \/ PlayTop
  \/ PlayLock
  \/ PlayConstructSearch
  \/ PlayRunBlocking
  \/ SearchReturns
  \/ PlayAfterSearch
  \/ PlayPickMove
  \/ PlayMakeMove0
  \/ PlayMakeMove1
  \/ AbortLock
  \/ AbortSetFlag
  \/ AbortForward

Spec == Init /\ [][Next]_vars

(***************************************************************************)
(* Properties of SelfPlayGame                                              *)
(***************************************************************************)
\* Number of moves Play() has applied to tree_[0].
Applied == Len(Tree(0).hist.moves) - Len(opening.moves)

\* Play() has returned with a decided result although the position is not
\* terminal: the game ended by resignation.
Resigned ==
  /\ pc = "done"
  /\ game_result_ \in Decided
  /\ ComputeGameResult(Tree(0).hist) = "UNDECIDED"

\* The step in which Play() reads the evaluation of a finished search
\* (lines 273-324), i.e. the search was not seen aborted at line 271.
PlayEvaluates == pc = "after" /\ pc' # "after" /\ best_eval' # NoEval

MoverWins(black) == IF black THEN "BLACK_WON" ELSE "WHITE_WON"
OpponentWins(black) == IF black THEN "WHITE_WON" ELSE "BLACK_WON"

\* C1: when Play() has returned and the abort flag is not set, game_result_
\* is WHITE_WON, BLACK_WON or DRAW, never UNDECIDED.
Thm_C1 == (pc = "done" /\ ~abort_) => game_result_ \in Decided

\* A game of at least two searches that ran to a draw with no abort requested.
Wit_C1 ==
  /\ pc = "done" /\ ~abort_ /\ apc = "idle"
  /\ move_count_ >= 2
  /\ game_result_ = "DRAW"

\* C2: when Play() returns after an abort, every move is applied to both
\* trees and counted in move_count_ and the side-to-move flag, or to none of
\* them: the trees hold the same moves, the flag is the side to move of the
\* tree, and move_count_ is the number of moves applied.
Claim_C2 ==
  (pc = "done" /\ abort_ /\ game_result_ = "UNDECIDED") =>
    /\ Tree(0).hist = Tree(1).hist
    /\ blacks_move = HistIsBlackToMove(Tree(0).hist)
    /\ move_count_ = Applied

\* C3: once Abort() has returned Play() constructs no Search and no search
\* stops normally; the Search that exists when Abort() returns has been asked
\* to abort; Play() holds the mutex only between lines 243 and 265, so Abort()
\* can take it while RunBlocking is in progress.
Thm_C3 ==
  /\ [](apc = "returned" /\ search_.state # "none" => search_.aborted)
  /\ [](mutex_ = "play" <=> pc = "locked")
  /\ [](pc = "blocked" /\ apc = "idle" => ENABLED AbortLock)
  /\ [][apc = "returned" =>
          /\ ~(search_'.state = "created" /\ search_ # search_')
          /\ ~(search_'.state = "stopped" /\ search_.state # "stopped")]_vars

\* Abort() has run from start to end while RunBlocking was in progress.
Wit_C3 ==
  /\ pc = "blocked" /\ search_.state = "running"
  /\ apc = "returned" /\ search_.aborted /\ mutex_ = "free"

\* C4: with two distinct trees, tree_[0] and tree_[1] hold the same moves
\* after construction, at the start of every turn and when Play() has
\* returned; they differ only between lines 361 and 362.
Thm_C4 ==
  (tree_[0] # tree_[1] /\ pc # "make1") =>
    nodetree[0].hist = nodetree[1].hist

\* Two distinct trees after an abort that came when moves had been applied.
Wit_C4 ==
  /\ tree_[0] # tree_[1]
  /\ pc = "done" /\ abort_
  /\ Applied >= 2
  /\ nodetree[1].hist.moves = nodetree[0].hist.moves

\* C6: an iteration of the acceptance loop accepts the reported move exactly
\* when its visit count is the maximum over the edges of the mover's head or
\* at least the mover's MinimumAllowedVisits; otherwise the trees are left
\* alone and the loop retries; the move applied at line 361 is the accepted
\* one; with MinimumAllowedVisits = 0 no iteration rejects.
EdgeOf(m) == IF blacks_move THEN Mirror(m) ELSE m
VisitsOf(m) ==
  IF EdgeOf(m) \in DOMAIN Tree(Idx).N THEN Tree(Idx).N[EdgeOf(m)] ELSE 0
IsMaxVisits(m) == \A e \in DOMAIN Tree(Idx).N : Tree(Idx).N[e] <= VisitsOf(m)
Acceptable(m) ==
  IsMaxVisits(m) \/ VisitsOf(m) >= options_[Idx].MinimumAllowedVisits

Thm_C6 ==
  [][ /\ PlayPickMove =>
           /\ (pc' = "make0") <=> Acceptable(move')
           /\ (pc' = "pick") <=> ~Acceptable(move')
           /\ nodetree' = nodetree
           /\ options_[Idx].MinimumAllowedVisits = 0 => pc' = "make0"
      /\ PlayMakeMove0 =>
           /\ Acceptable(move)
           /\ Tree(0).hist.moves' = Append(Tree(0).hist.moves, EdgeOf(move)) ]_vars

\* The candidate in hand was rejected: 10 visits, below the maximum 50 and
\* below the threshold 20.
Wit_C6 ==
  /\ pc = "pick" /\ move # NoMove
  /\ options_[Idx].MinimumAllowedVisits = 20
  /\ VisitsOf(move) = 10
  /\ \E a, b \in DOMAIN Tree(Idx).N :
       a # b /\ Tree(Idx).N[a] = 50 /\ Tree(Idx).N[b] = 50

\* C7: a game ends by resignation only if Play() was called with
\* enable_resign and the mover's options are not (ResignPercentage = 0 and
\* ResignWDLStyle = false).
Thm_C7 ==
  Resigned =>
    /\ enable_resign
    /\ ~(options_[Idx].ResignPercentage = 0 /\ ~options_[Idx].ResignWDLStyle)

\* The mover, with resignation enabled at 0 percent in absolute style, has
\* seen the worst evaluation there is and goes on to choose a move.
Wit_C7 ==
  /\ pc = "pick" /\ enable_resign
  /\ options_[Idx].ResignPercentage = 0 /\ ~options_[Idx].ResignWDLStyle
  /\ best_eval.wl = -100

\* C8: margin mode.  Twice the probabilities, in hundredths: mover's win,
\* opponent's win, draw.  When one exceeds 1 - percentage the game ends on
\* that turn with no move applied; precedence mover-win, opponent-win, draw.
Win2(e) == 100 + e.wl - e.d
Loss2(e) == 100 - e.wl - e.d
Draw2(e) == 2 * e.d
Margin2(o) == 2 * (100 - o.ResignPercentage)

Thm_C9 ==
  [][ PlayEvaluates =>
        /\ ( /\ enable_resign
             /\ ~options_[Idx].ResignWDLStyle
             /\ MoveNumber(Tree(0).hist) >= options_[Idx].ResignEarliestMove
             /\ best_eval'.wl + 100 < 2 * options_[Idx].ResignPercentage )
           => /\ pc' = "done"
              /\ nodetree' = nodetree
              /\ game_result_' = OpponentWins(blacks_move)
        /\ MoveNumber(Tree(0).hist) < options_[Idx].ResignEarliestMove
           => pc' = "pick" /\ game_result_' = "UNDECIDED" ]_vars

\* Black to move resigned at centered evaluation .09 under 10 percent.
Wit_C9 ==
  /\ Resigned /\ blacks_move
  /\ ~options_[Idx].ResignWDLStyle /\ options_[Idx].ResignPercentage = 10
  /\ best_eval.wl = -82
  /\ game_result_ = "WHITE_WON"

\* The side that made the k-th move of history h.
MoverIsBlack(h, k) == (h.black = (k % 2 = 1))

\* C17: GetMoves() returns one move per move of the history of tree_[0], in
\* the order played, each as the board shows it (mirrored when black made
\* it): the opening prefix followed by the moves Play() applied; made one
\* after the other from the starting position, they lead to the history the
\* head of tree_[0] holds.
Thm_C17 ==
  /\ [](LET h == Tree(0).hist
            list == GetMoves(Tree(0))
        IN /\ Len(list) = Len(h.moves)
           /\ \A k \in 1..Len(list) :
                list[k] = IF MoverIsBlack(h, k) THEN Mirror(h.moves[k])
                          ELSE h.moves[k]
           /\ SubSeq(list, 1, Len(opening.moves)) = opening.moves
           /\ MakeMoves(ResetToPosition(opening.black), list).hist = h)
  /\ [][PlayMakeMove0 =>
          GetMoves(Tree(0))' = Append(GetMoves(Tree(0)), move)]_vars

\* A game of three moves from the start position: white, black, white.
Wit_C17 ==
  /\ pc = "done" /\ opening.moves = <<>> /\ ~opening.black
  /\ GetMoves(Tree(0)) = <<1, -1, 1>>
  /\ Tree(0).hist.moves = <<1, 1, 1>>

\* The moves of history h as the board showed them when they were made.
AsPlayed(h) ==
  [k \in 1..Len(h.moves) |->
     IF MoverIsBlack(h, k) THEN Mirror(h.moves[k]) ELSE h.moves[k]]

\* C18: an iteration of the acceptance loop that accepts its candidate calls
\* nothing; one that rejects it calls the discarded callback, once, exactly
\* when the position after the candidate is not terminal, with the starting
\* position and the moves of the game so far followed by the candidate, then
\* ResetBestMove(), and the loop retries with the trees as they were.
Thm_C18 ==
  [][ /\ PlayPickMove =>
           LET after == MakeMove(Tree(Idx), move').hist
               report == [fn |-> "discarded_callback",
                          fen |-> [black |-> opening.black],
                          moves |-> Append(AsPlayed(Tree(0).hist), move')]
               reset == [fn |-> "ResetBestMove"]
           IN /\ Acceptable(move') => (calls' = <<>> /\ pc' = "make0")
              /\ ~Acceptable(move') =>
                   /\ pc' = "pick" /\ nodetree' = nodetree
                   /\ calls' = IF ComputeGameResult(after) = "UNDECIDED"
                                 THEN <<report, reset>>
                                 ELSE <<reset>>
      /\ ~PlayPickMove => (calls' = calls \/ calls' = <<>>) ]_vars

\* After white's 1, black's candidate 1 (-1 on the board) was rejected and
\* reported: the position after it is not terminal.
Wit_C18 ==
  /\ pc = "pick" /\ blacks_move /\ move = -1
  /\ calls = <<[fn |-> "discarded_callback", fen |-> [black |-> FALSE],
                moves |-> <<1, -1>>],
               [fn |-> "ResetBestMove"]>>

\* The side to move a buffered record was taken for.
RecordSide(rec) ==
  IF rec.input_format = "INPUT_112_WITH_CANONICALIZATION"
    THEN rec.invariance_info = 128
    ELSE rec.side_to_move_or_enpassant = 1

\* C19: with training enabled, the step that follows a search appends one
\* record when it does not see the abort flag, and none when it does; the
\* record is taken for the side to move at the head of the mover's tree, with
\* the evaluation of that search, result and plies_left not yet set, and no
\* move is applied in that step.  So the buffer holds one record per move
\* applied, plus one for the turn whose move is not applied yet or that ended
\* the game by resignation; without training it stays empty.
Thm_C19 ==
  /\ [](IF training
          THEN Len(training_data_) =
                 Applied + (IF pc \in {"pick", "make0"} \/ Resigned
                              THEN 1 ELSE 0)
          ELSE training_data_ = <<>>)
  /\ [][ /\ (pc = "after" /\ pc' # "after" /\ training) =>
              /\ nodetree' = nodetree
              /\ IF abort_
                   THEN training_data_' = training_data_
                   ELSE /\ Len(training_data_') = Len(training_data_) + 1
                        /\ SubSeq(training_data_', 1, Len(training_data_))
                             = training_data_
                        /\ LET rec == training_data_'[Len(training_data_')]
                           IN /\ RecordSide(rec)
                                   = HistIsBlackToMove(Tree(Idx).hist)
                              /\ rec.input_format = options_[Idx].input_format
                              /\ rec.best_m = best_eval'.ml
                              /\ rec.result = 0 /\ rec.plies_left = 0
         /\ training_data_' # training_data_ => pc = "after" ]_vars

\* A training game in which a move was applied and the next turn resigned:
\* two records, one move.
Wit_C19 ==
  /\ training /\ Resigned /\ ~abort_
  /\ Applied = 1 /\ Len(training_data_) = 2
  /\ RecordSide(training_data_[1]) # RecordSide(training_data_[2])

(***************************************************************************)
(* ValueSelfPlayGames                                                      *)
(***************************************************************************)
\* Largest number of games (openings) handed to the constructor.
NumGames == 2

\* What the actions of ValueSelfPlayGames leave alone.
game == <<opening, tree_, nodetree, training, enable_resign, pc, move, calls,
          best_eval, search_, game_result_, move_count_, training_data_>>

\* Weights a player's network may have.
Networks == {"flat", "rising", "falling", "losing"}

\* NetworkComputation::GetQVal (neural/network.h): the value of a position for
\* its side to move, in hundredths.
NetValue(net, h) ==
  CASE net = "rising" -> 20 * Total(h.moves) - 30
    [] net = "falling" -> 30 - 20 * Total(h.moves)
    [] net = "losing" -> -100
    [] OTHER -> 0

\* Tablebases the constructor may be given (nullptr: none).
Tablebases ==
  { NoTablebase,
    [present |-> TRUE, max_cardinality |-> 3],
    [present |-> TRUE, max_cardinality |-> 5] }

\* ChessBoard: number of pieces and castling rights of a position.
PieceCount(h) == Target + 2 - Total(h.moves)
NoLegalCastle(h) == h.moves # <<>>

\* SyzygyTablebase::probe_wdl: what a probe may answer.
ProbeOutcomes ==
  { [state |-> "FAIL", wdl |-> "WDL_DRAW"],
    [state |-> "OK", wdl |-> "WDL_WIN"],
    [state |-> "OK", wdl |-> "WDL_LOSS"],
    [state |-> "OK", wdl |-> "WDL_CURSED_WIN"],
    [state |-> "ZEROING_BEST_MOVE", wdl |-> "WDL_BLESSED_LOSS"] }

\* lines 72-87
ValueInit ==
  /\ options_ \in [0..1 -> {[DefaultOptions EXCEPT !.network = w] : w \in Networks}]
  /\ syzygy_tb_ \in Tablebases
  /\ \E n \in 0..NumGames : \E ops \in [1..n -> Openings] :
       /\ trees_ = [i \in 1..n |->
                      MakeMoves(ResetToPosition(ops[i].black), ops[i].moves).hist]
       /\ results_ = [i \in 1..n |-> "UNDECIDED"]
       /\ probes = [i \in 1..n |-> NoProbe]
  /\ vpc = "wave"
  /\ all_done = TRUE
  /\ blacks_move = FALSE
  /\ comp = NoComputation
  /\ comp_idx = 0
  /\ reads = <<>>
  /\ abort_ = FALSE
  /\ mutex_ = "free"
  /\ apc = "idle"
  \* no SelfPlayGame object exists
  /\ opening = [black |-> FALSE, moves |-> <<>>]
  /\ tree_ = [i \in 0..1 |-> 0]
  /\ nodetree = [i \in 0..1 |-> ResetToPosition(FALSE)]
  /\ training = FALSE
  /\ enable_resign = FALSE
  /\ pc = "off"
  /\ move = NoMove
  /\ calls = <<>>
  /\ best_eval = NoEval
  /\ search_ = NoSearch
  /\ game_result_ = "UNDECIDED"
  /\ move_count_ = 0
  /\ training_data_ = <<>>
  /\ WriterIdle

\* lines 115, 137, 151, 175: (tree->GetPlyCount() % 2) == 1
PlyIsBlack(h) == (GetPlyCount(h) % 2) = 1

\* lines 110-114: the position is probed
Probed(h) ==
  /\ syzygy_tb_.present
  /\ NoLegalCastle(h)
  /\ PieceCount(h) <= syzygy_tb_.max_cardinality

ProbeResult_WhiteView(wdl, tb_side_black) ==
  IF wdl = "WDL_WIN" THEN "WHITE_WON"
  ELSE IF wdl = "WDL_LOSS" THEN "BLACK_WON"
  ELSE "DRAW"

\* lines 122-130
ProbeResult(wdl, tb_side_black) ==
  IF wdl = "WDL_WIN"
    THEN (IF tb_side_black THEN "BLACK_WON" ELSE "WHITE_WON")
  ELSE IF wdl = "WDL_LOSS"
    THEN (IF tb_side_black THEN "WHITE_WON" ELSE "BLACK_WON")
  ELSE "DRAW"

\* lines 104-134: results_[i] after the first loop of a wave
OutcomeOf(result, h, probe) ==
  IF result # "UNDECIDED" THEN result
  ELSE IF ComputeGameResult(h) # "UNDECIDED" THEN ComputeGameResult(h)
  ELSE IF Probed(h) /\ probe.state # "FAIL"
    THEN ProbeResult(probe.wdl, PlyIsBlack(h))
  ELSE "UNDECIDED"

InWave_AnyResult(result, h, black) == PlyIsBlack(h) = black

InWave_AnyColour(result, h, black) == result = "UNDECIDED"

\* lines 148-151 and 172-175: the game takes part in the wave
InWave(result, h, black) ==
  result = "UNDECIDED" /\ PlyIsBlack(h) = black

\* Node::Edges(): the legal moves in generation order
EdgeSeq(h) == SelectSeq([m \in 1..NumMoves |-> m], LAMBDA m : m \in LegalMoves(h))

SubmitGame_AllEdges(i, h) ==
  [k \in 1..Len(EdgeSeq(h)) |-> [game |-> i, position |-> Append1(h, EdgeSeq(h)[k])]]

\* lines 156-166: the positions game i submits
SubmitGame(i, h) ==
  LET es == SelectSeq(EdgeSeq(h),
                      LAMBDA m : ComputeGameResult(Append1(h, m)) = "UNDECIDED")
  IN [k \in 1..Len(es) |-> [game |-> i, position |-> Append1(h, es[k])]]

\* lines 146-167
RECURSIVE SubmitFrom(_)
SubmitFrom(i) ==
  IF i > Len(trees_) THEN <<>>
  ELSE (IF InWave(results_[i], trees_[i], blacks_move)
          THEN SubmitGame(i, trees_[i]) ELSE <<>>) \o SubmitFrom(i + 1)

\* line 177: std::numeric_limits<float>::lowest(), below every score
FloatLowest == -1000000

KeepsBest_Strict(q, max_q) == q > max_q

\* line 193
KeepsBest(q, max_q) == q >= max_q

\* The one element of a singleton; it lets a value be computed once and named.
Only(S) == CHOOSE x \in S : TRUE

\* lines 180-197: st = [max_q, best, comp_idx, reads] after edge m of the
\* history h of game i
ScoreEdge(i, m, h, st0) ==
  Only({ LET result == ComputeGameResult(Append1(h, m))
             q == IF result = "UNDECIDED" THEN -comp.outputs[st.comp_idx + 1]
                  ELSE IF result = "DRAW" THEN 0
                  ELSE 100
             idx == IF result = "UNDECIDED" THEN st.comp_idx + 1
                    ELSE st.comp_idx
             rd == IF result = "UNDECIDED"
                     THEN Append(st.reads, [idx |-> st.comp_idx, game |-> i,
                                            position |-> Append1(h, m)])
                     ELSE st.reads
         IN IF KeepsBest(q, st.max_q)
              THEN [max_q |-> q, best |-> EdgeGetMove(m, HistIsBlackToMove(h)),
                    comp_idx |-> idx, reads |-> rd]
              ELSE [st EXCEPT !.comp_idx = idx, !.reads = rd] : st \in {st0} })

\* lines 179-198: st = [max_q, best, comp_idx, reads] after the edges es of
\* the history h of game i
RECURSIVE SelectEdge(_, _, _, _)
SelectEdge(i, es, h, st) ==
  IF es = <<>> THEN st
  ELSE SelectEdge(i, Tail(es), h, ScoreEdge(i, Head(es), h, st))

\* lines 171-199: game i of the selection pass
SelectGame(i, r0) ==
  Only({ IF ~InWave(results_[i], r.trees[i], blacks_move)
           THEN r
           ELSE Only({ [trees |-> [r.trees EXCEPT ![i] =
                                     MakeMove([hist |-> @, N |-> NoEdges],
                                              st.best).hist],
                        comp_idx |-> st.comp_idx,
                        reads |-> st.reads] :
                       st \in {SelectEdge(i, EdgeSeq(r.trees[i]), r.trees[i],
                                          [max_q |-> FloatLowest,
                                           best |-> NoMove,
                                           comp_idx |-> r.comp_idx,
                                           reads |-> r.reads])} }) :
         r \in {r0} })

\* lines 169-200: trees_, comp_idx and the reads after games i.. have been
\* handled
RECURSIVE SelectFrom(_, _)
SelectFrom(i, r0) ==
  IF i > Len(trees_) THEN r0
  ELSE Only({ SelectFrom(i + 1, r) : r \in {SelectGame(i, r0)} })

\* line 97
ValueWaveLock ==
  /\ vpc = "wave"
  /\ mutex_ = "free"
  /\ mutex_' = "play"
  /\ vpc' = "check"
  /\ UNCHANGED <<game, writer, options_, blacks_move, abort_, apc, trees_,
                 results_, syzygy_tb_, all_done, probes, comp, comp_idx,
                 reads>>

WaveAbortSeen_Never == FALSE

\* line 98: the abort flag as tested under the mutex
WaveAbortSeen == abort_

\* lines 98-99
ValueWaveCheck ==
  /\ vpc = "check"
  /\ vpc' = IF WaveAbortSeen THEN "done" ELSE "outcome"
  /\ mutex_' = "free"
  /\ UNCHANGED <<game, writer, options_, blacks_move, abort_, apc, trees_,
                 results_, syzygy_tb_, all_done, probes, comp, comp_idx,
                 reads>>

StillOpen_FirstOnly(res) == {i \in DOMAIN res : i = 1 /\ res[i] = "UNDECIDED"}

\* lines 135-139: the games that clear all_done
StillOpen(res) == {i \in DOMAIN res : res[i] = "UNDECIDED"}

WaveBlack_Unset(h) == FALSE

\* line 137: the colour the first undecided game gives the wave
WaveBlack(h) == PlyIsBlack(h)

\* lines 104-114: the games whose position is handed to probe_wdl
ProbedGames ==
  {i \in DOMAIN trees_ : /\ results_[i] = "UNDECIDED"
                         /\ ComputeGameResult(trees_[i]) = "UNDECIDED"
                         /\ Probed(trees_[i])}

\* lines 100-142
ValueOutcomePass ==
  /\ vpc = "outcome"
  /\ \E answers \in [ProbedGames -> ProbeOutcomes] :
       LET asked == [i \in DOMAIN trees_ |->
                       IF i \in ProbedGames THEN answers[i] ELSE NoProbe]
           res == [i \in DOMAIN trees_ |->
                     OutcomeOf(results_[i], trees_[i], asked[i])]
           open == StillOpen(res)
           first == CHOOSE i \in open : \A j \in open : i <= j
       IN /\ results_' = res
          /\ probes' = asked
          /\ all_done' = (open = {})
          /\ blacks_move' = IF open = {} THEN FALSE ELSE WaveBlack(trees_[first])
          /\ vpc' = IF open = {} THEN "done" ELSE "submit"
  /\ UNCHANGED <<game, writer, options_, abort_, mutex_, apc, trees_,
                 syzygy_tb_, comp, comp_idx, reads>>

\* lines 143-167
ValueSubmitPass ==
  /\ vpc = "submit"
  /\ comp' = [net |-> options_[IF blacks_move THEN 1 ELSE 0].network,
              inputs |-> SubmitFrom(1), outputs |-> <<>>]
  /\ reads' = <<>>
  /\ vpc' = "compute"
  /\ UNCHANGED <<game, writer, options_, blacks_move, abort_, mutex_, apc,
                 trees_, results_, syzygy_tb_, all_done, probes, comp_idx>>

\* line 168
ValueComputeBlocking ==
  /\ vpc = "compute"
  /\ comp' = [comp EXCEPT !.outputs =
                [k \in 1..Len(comp.inputs) |->
                   NetValue(comp.net, comp.inputs[k].position)]]
  /\ vpc' = "select"
  /\ UNCHANGED <<game, writer, options_, blacks_move, abort_, mutex_, apc,
                 trees_, results_, syzygy_tb_, all_done, probes, comp_idx,
                 reads>>

\* lines 169-200
ValueSelectPass ==
  /\ vpc = "select"
  /\ \E r \in {SelectFrom(1, [trees |-> trees_, comp_idx |-> 0,
                                reads |-> <<>>])} :
       /\ trees_' = r.trees
       /\ comp_idx' = r.comp_idx
       /\ reads' = r.reads
  /\ vpc' = "wave"
  /\ UNCHANGED <<game, writer, options_, blacks_move, abort_, mutex_, apc,
                 results_, syzygy_tb_, all_done, probes, comp>>

\* line 90
ValueAbortLock ==
  /\ vpc # "off"
  /\ apc = "idle"
  /\ mutex_ = "free"
  /\ mutex_' = "abort"
  /\ apc' = "locked"
  /\ UNCHANGED <<game, writer, value, options_, blacks_move, abort_>>

\* lines 91-92
ValueAbortSetFlag ==
  /\ vpc # "off"
  /\ apc = "locked"
  /\ abort_' = TRUE
  /\ mutex_' = "free"
  /\ apc' = "returned"
  /\ UNCHANGED <<game, writer, value, options_, blacks_move>>

ValueNext ==
  \/ ValueWaveLock
  \/ ValueWaveCheck
  \/ ValueOutcomePass
  \/ ValueSubmitPass
  \/ ValueComputeBlocking
  \/ ValueSelectPass
  \/ ValueAbortLock
  \/ ValueAbortSetFlag

ValueSpec == ValueInit /\ [][ValueNext]_vars

\* The thread that runs Play() keeps running: the mutex is held for two
\* assignments at most and ComputeBlocking returns.
ValuePlay ==
  \/ ValueWaveLock
  \/ ValueWaveCheck
  \/ ValueOutcomePass
  \/ ValueSubmitPass
  \/ ValueComputeBlocking
  \/ ValueSelectPass

\* The fair behaviours are explored for one pair of networks: the weights
\* decide which moves are played, not how Play() and Abort() interleave.
ValueFairInit ==
  /\ ValueInit
  /\ options_[0].network = "flat"
  /\ options_[1].network = "rising"

ValueFairSpec == ValueFairInit /\ [][ValueNext]_vars /\ WF_vars(ValuePlay)

\* Both drivers: a behaviour is one of SelfPlayGame or one of
\* ValueSelfPlayGames.
BothNext == Next \/ ValueNext
BothSpec == (Init \/ ValueInit) /\ [][BothNext]_vars

\* C5: a decided result is final.  In ValueSelfPlayGames::Play, results_[i]
\* once different from UNDECIDED never changes and game i's tree gets no
\* further move; in SelfPlayGame::Play, once game_result_ is decided Play() has
\* returned, no search is started and no move is applied.
Thm_C5 ==
  /\ [](game_result_ \in Decided => pc = "done")
  /\ [][ /\ \A i \in DOMAIN results_ :
              results_[i] # "UNDECIDED" =>
                results_'[i] = results_[i] /\ trees_'[i] = trees_[i]
         /\ game_result_ \in Decided =>
              /\ game_result_' = game_result_
              /\ nodetree' = nodetree
              /\ search_'.state = search_.state ]_vars

\* A wave has ended in which one game, decided by the tablebase in a position
\* that is not terminal, was passed over while another game goes on.
Wit_C5 ==
  /\ vpc = "wave"
  /\ \E i, j \in DOMAIN results_ :
       /\ results_[i] \in Decided
       /\ ComputeGameResult(trees_[i]) = "UNDECIDED"
       /\ results_[j] = "UNDECIDED"
       /\ Len(trees_[j].moves) >= 2

(***************************************************************************)
(* SelfPlayGame::WriteTrainingData                                         *)
(***************************************************************************)
\* Largest number of buffered training records.
MaxRecords == 3

\* IEEE-754 single precision on the unit grid: a float has 24 significant
\* bits; a sum or difference is rounded to the nearest such value, ties to
\* even.
RECURSIVE Bits(_)
Bits(x) == IF x = 0 THEN 0 ELSE 1 + Bits(x \div 2)

F32Round(x) ==
  IF Bits(x) <= 24 THEN x
  ELSE LET g == 2^(Bits(x) - 24)
           lo == (x \div g) * g
           r == x - lo
       IN IF 2 * r < g THEN lo
          ELSE IF 2 * r > g THEN lo + g
          ELSE IF (lo \div g) % 2 = 0 THEN lo ELSE lo + g

F32(x) == IF x < 0 THEN -F32Round(-x) ELSE F32Round(x)

\* Records the buffer may hold: the two input formats, each with white and
\* black to move, and three moves-left estimates (0, 4.0 and 0.1f).
BufferRecords ==
  { [input_format |-> f.format,
     side_to_move_or_enpassant |-> f.stm,
     invariance_info |-> f.inv,
     best_m |-> m, result |-> 0, plies_left |-> 0] :
    f \in { [format |-> "INPUT_CLASSICAL_112_PLANE", stm |-> 0, inv |-> 0],
            [format |-> "INPUT_CLASSICAL_112_PLANE", stm |-> 1, inv |-> 0],
            [format |-> "INPUT_112_WITH_CANONICALIZATION", stm |-> 4, inv |-> 0],
            [format |-> "INPUT_112_WITH_CANONICALIZATION", stm |-> 0, inv |-> 128] },
    m \in {0, 4 * Unit, 13421773} }

\* A game has ended with some buffer and some result.
WriteInit ==
  /\ \E n \in 0..MaxRecords : training_data_ \in [1..n -> BufferRecords]
  /\ game_result_ \in GameResults
  /\ wpc = "call"
  /\ m_estimate = 0
  /\ written = <<>>
  /\ options_ = [i \in 0..1 |-> DefaultOptions]
  /\ opening = [black |-> FALSE, moves |-> <<>>]
  /\ tree_ = [i \in 0..1 |-> 0]
  /\ nodetree = [i \in 0..1 |-> ResetToPosition(FALSE)]
  /\ training = TRUE
  /\ enable_resign = FALSE
  /\ pc = "off"
  /\ blacks_move = FALSE
  /\ move = NoMove
  /\ calls = <<>>
  /\ best_eval = NoEval
  /\ abort_ = FALSE
  /\ mutex_ = "free"
  /\ search_ = NoSearch
  /\ move_count_ = 0
  /\ apc = "idle"
  /\ ValueIdle

MEstimateInit_NoMinusOne(best_m, size) == F32(best_m + size * Unit)

\* line 414: float + size_t, then - 1, each rounded to float
MEstimateInit(best_m, size) == F32(F32(best_m + size * Unit) - Unit)

BlackToMove_FieldOnly(chunk) == chunk.side_to_move_or_enpassant # 0

\* lines 416-420
BlackToMove(chunk) ==
  IF chunk.input_format = "INPUT_112_WITH_CANONICALIZATION"
    THEN (chunk.invariance_info \div 128) % 2 # 0
    ELSE chunk.side_to_move_or_enpassant # 0

\* lines 421-427
ResultLabel(result, black_to_move) ==
  IF result = "WHITE_WON" THEN (IF black_to_move THEN -1 ELSE 1)
  ELSE IF result = "BLACK_WON" THEN (IF black_to_move THEN 1 ELSE -1)
  ELSE 0

\* lines 411-414
WriteBegin ==
  /\ wpc = "call"
  /\ IF training_data_ = <<>>
       THEN wpc' = "done" /\ UNCHANGED m_estimate
       ELSE /\ m_estimate' = MEstimateInit(training_data_[Len(training_data_)].best_m,
                                           Len(training_data_))
            /\ wpc' = "loop"
  /\ UNCHANGED <<config, value, written, nodetree, pc, blacks_move, move, calls,
                 best_eval, abort_, mutex_, search_, game_result_,
                 move_count_, training_data_, apc>>

\* lines 415-431: one iteration; the loop ends after the last record
WriteChunk ==
  /\ wpc = "loop"
  /\ LET k == Len(written) + 1
         chunk == training_data_[k]
     IN /\ written' = Append(written,
                        [chunk EXCEPT
                           !.result = ResultLabel(game_result_, BlackToMove(chunk)),
                           !.plies_left = m_estimate])
        /\ m_estimate' = F32(m_estimate - Unit)
        /\ wpc' = IF k = Len(training_data_) THEN "done" ELSE "loop"
  /\ UNCHANGED <<config, value, nodetree, pc, blacks_move, move, calls,
                 best_eval, abort_, mutex_, search_, game_result_,
                 move_count_, training_data_, apc>>

WriteNext == WriteBegin \/ WriteChunk

WriteSpec == WriteInit /\ [][WriteNext]_vars

\* The written chunks are the buffered records in capture order, one
\* WriteChunk call each, labels apart.
InCaptureOrder ==
  /\ Len(written) = Len(training_data_)
  /\ \A k \in 1..Len(written) :
       [written[k] EXCEPT !.result = 0, !.plies_left = 0] = training_data_[k]

\* C10 as stated: with n records and moves-left estimate m in the last one,
\* the k-th chunk written (k = 0..n-1) carries plies_left = m + (n - 1) - k,
\* so the last one carries exactly m.
Claim_C10 ==
  wpc = "done" =>
    /\ InCaptureOrder
    /\ \A k \in 1..Len(written) :
         written[k].plies_left =
           training_data_[Len(training_data_)].best_m
             + (Len(training_data_) - k) * Unit

\* C10 as amended: one WriteChunk call per record, in capture order, none
\* for an empty buffer; the k-th chunk (k = 0..n-1) carries fl(m + n) - 1 - k,
\* fl rounding to single precision, so the labels decrease by exactly one per
\* record; the last one carries exactly m when m + n is a single-precision
\* value.
Thm_C10 ==
  wpc = "done" =>
    /\ InCaptureOrder
    /\ training_data_ # <<>> =>
         LET n == Len(training_data_)
             m == training_data_[n].best_m
             F == F32Round(m + n * Unit) - Unit
         IN /\ \A k \in 1..n : written[k].plies_left = F - (k - 1) * Unit
            /\ F32Round(m + n * Unit) = m + n * Unit =>
                 written[n].plies_left = m

\* Three records, the last with estimate 4.0: labels 6, 5, 4.
Wit_C10 ==
  /\ wpc = "done"
  /\ Len(written) = 3
  /\ training_data_[3].best_m = 4 * Unit
  /\ written[1].plies_left = 6 * Unit
  /\ written[2].plies_left = 5 * Unit
  /\ written[3].plies_left = 4 * Unit

\* C11: every chunk written carries result +1 when the side to move of the
\* record is the declared winner, -1 when the other side is, 0 when the game
\* is a draw; the side to move is side_to_move_or_enpassant, except with the
\* canonical input format, where it is bit 7 of invariance_info.
RecordBlack(chunk) ==
  IF chunk.input_format = "INPUT_112_WITH_CANONICALIZATION"
    THEN chunk.invariance_info >= 128
    ELSE chunk.side_to_move_or_enpassant # 0

Thm_C11 ==
  \A k \in 1..Len(written) :
    LET own == MoverWins(RecordBlack(training_data_[k]))
        other == OpponentWins(RecordBlack(training_data_[k]))
    IN /\ game_result_ = own => written[k].result = 1
       /\ game_result_ = other => written[k].result = -1
       /\ game_result_ = "DRAW" => written[k].result = 0

\* Black has won: a canonical record whose bit 7 is set got +1 although its
\* en passant field is 0, a canonical record with en passant mask 4 and bit 7
\* clear got -1, and a classical record of black got +1.
Wit_C11 ==
  /\ wpc = "done" /\ game_result_ = "BLACK_WON" /\ Len(written) = 3
  /\ written[1].input_format = "INPUT_112_WITH_CANONICALIZATION"
  /\ written[1].invariance_info = 128 /\ written[1].result = 1
  /\ written[2].input_format = "INPUT_112_WITH_CANONICALIZATION"
  /\ written[2].side_to_move_or_enpassant = 4 /\ written[2].result = -1
  /\ written[3].input_format = "INPUT_CLASSICAL_112_PLANE"
  /\ written[3].side_to_move_or_enpassant = 1 /\ written[3].result = 1

(***************************************************************************)
(* Properties of ValueSelfPlayGames                                        *)
(***************************************************************************)
\* C12: ValueSelfPlayGames::Play() returns only from the abort test at the
\* start of a wave, with the flag set, or from the outcome pass, with every
\* result decided; when it has returned and no abort was requested, every
\* results_[i] is decided.
Thm_C12 ==
  /\ []((vpc = "done" /\ ~abort_) =>
          \A i \in DOMAIN results_ : results_[i] \in Decided)
  /\ [][ (vpc # "done" /\ vpc' = "done") =>
           \/ vpc = "check" /\ abort_
           \/ /\ vpc = "outcome"
              /\ \A i \in DOMAIN results_ : results_'[i] \in Decided ]_vars

\* Two games, white to move in one opening and black in the other, both
\* played to the end with no abort requested.
Wit_C12 ==
  /\ vpc = "done" /\ ~abort_ /\ apc = "idle"
  /\ Len(trees_) = 2
  /\ trees_[1].black # trees_[2].black
  /\ \A i \in 1..2 : ComputeGameResult(trees_[i]) \in Decided

\* The wave colour: the side to move of the first game the outcome pass left
\* undecided (neither terminal nor decided by a probe).
FirstOpen ==
  CHOOSE i \in DOMAIN results_ :
    /\ results_[i] = "UNDECIDED"
    /\ \A j \in DOMAIN results_ : results_[j] = "UNDECIDED" => i <= j
WaveColour == HistIsBlackToMove(trees_[FirstOpen])

\* The games of the wave and the positions they have to submit.
Advanced(i) ==
  results_[i] = "UNDECIDED" /\ HistIsBlackToMove(trees_[i]) = WaveColour
Candidates ==
  { [game |-> i, position |-> Append1(trees_[i], m)] :
      i \in {j \in DOMAIN trees_ : Advanced(j)}, m \in Moves }
WaveInputs ==
  { c \in Candidates :
      /\ c.position.moves[Len(c.position.moves)] \in LegalMoves(trees_[c.game])
      /\ ComputeGameResult(c.position) = "UNDECIDED" }

\* C13: a wave submits, then runs ComputeBlocking once, then applies moves:
\* ComputeBlocking runs on the candidate positions of all games of the wave
\* with no tree changed yet; trees change only in the selection pass that
\* follows it; that pass gives exactly one move to every undecided game whose
\* side to move is the wave colour and leaves every other tree as it was.
Thm_C13 ==
  [][ /\ (vpc' = "compute" /\ vpc # "compute") => vpc = "submit"
      /\ (vpc' = "select" /\ vpc # "select") => vpc = "compute"
      /\ (vpc = "compute" /\ vpc' # "compute") => vpc' = "select"
      /\ (vpc = "select" /\ vpc' # "select") => vpc' = "wave"
      /\ (comp'.outputs # comp.outputs /\ comp'.outputs # <<>>) =>
           /\ vpc = "compute" /\ vpc' = "select"
           /\ {comp.inputs[k] : k \in DOMAIN comp.inputs} = WaveInputs
           /\ Len(comp.inputs) = Cardinality(WaveInputs)
           /\ Len(comp'.outputs) = Len(comp.inputs)
           /\ trees_' = trees_
      /\ trees_' # trees_ => vpc = "select"
      /\ (vpc = "select" /\ vpc' # "select") =>
           \A i \in DOMAIN trees_ :
             IF Advanced(i)
               THEN \E m \in LegalMoves(trees_[i]) :
                      trees_'[i] = Append1(trees_[i], m)
               ELSE trees_'[i] = trees_[i] ]_vars

\* The first wave has ended: game 1, black to move after the opening move 1,
\* got its move; game 2, white to move, was left as its opening made it.
Wit_C13 ==
  /\ vpc = "wave" /\ comp.outputs # <<>>
  /\ Len(trees_) = 2
  /\ ~trees_[1].black /\ Len(trees_[1].moves) = 2 /\ trees_[1].moves[1] = 1
  /\ trees_[2] = [black |-> TRUE, moves |-> <<2>>]
  /\ results_[2] = "UNDECIDED"

\* The score of move m in position h for a player with network net, in
\* hundredths: the negated value of the continuation, 0 for a draw, +1 for
\* any other terminal.
Score(net, h, m) ==
  LET result == ComputeGameResult(Append1(h, m)) IN
  IF result = "UNDECIDED" THEN 0 - NetValue(net, Append1(h, m))
  ELSE IF result = "DRAW" THEN 0
  ELSE 100

\* Move e is enumerated after move m among the edges of h.
EnumeratedAfter(h, e, m) ==
  \E a, b \in DOMAIN EdgeSeq(h) :
    a < b /\ EdgeSeq(h)[a] = m /\ EdgeSeq(h)[b] = e

\* C14: the move the selection pass applies to a game of the wave is legal,
\* no legal move has a greater score, and every legal move enumerated after
\* it has a smaller score.
Thm_C14 ==
  [][ (vpc = "select" /\ vpc' # "select") =>
        \A i \in DOMAIN trees_ :
          Advanced(i) =>
            LET h == trees_[i]
                m == trees_'[i].moves[Len(trees_'[i].moves)]
                net == options_[IF WaveColour THEN 1 ELSE 0].network
            IN /\ trees_'[i] = Append1(h, m)
               /\ m \in LegalMoves(h)
               /\ \A e \in LegalMoves(h) :
                    /\ Score(net, h, e) <= Score(net, h, m)
                    /\ EnumeratedAfter(h, e, m) =>
                         Score(net, h, e) < Score(net, h, m) ]_vars

\* Black, whose network values every position as lost for the side to move,
\* had 1 (value +1), 2 (a win, +1) and 3 (a draw, 0) to choose from after the
\* opening move 1, and played 2: the last of the two best, not the last move.
Wit_C14 ==
  /\ vpc = "wave" /\ comp.net = "losing"
  /\ options_[1].network = "losing"
  /\ \E i \in DOMAIN trees_ : trees_[i] = [black |-> FALSE, moves |-> <<1, 2>>]

\* The position of game i is one the tablebase is asked about.
TablebaseApplies(i) ==
  /\ syzygy_tb_.present
  /\ NoLegalCastle(trees_[i])
  /\ PieceCount(trees_[i]) <= syzygy_tb_.max_cardinality

\* C15: in the outcome pass a game that is undecided and not terminal is
\* probed exactly when a tablebase is configured, its position has no
\* castling rights and its piece count is within max_cardinality; an answer
\* whose state is not FAIL decides it (WDL_WIN: the side to move wins,
\* WDL_LOSS: the other side, anything else: DRAW), FAIL leaves it undecided.
\* No position of a decided game is submitted and no move is applied to it;
\* a game whose probe failed submits its candidate positions when its side to
\* move is the wave colour.
Thm_C15 ==
  [][ /\ (vpc = "outcome" /\ vpc' # "outcome") =>
           \A i \in DOMAIN trees_ :
             (results_[i] = "UNDECIDED"
                /\ ComputeGameResult(trees_[i]) = "UNDECIDED") =>
               IF TablebaseApplies(i)
                 THEN /\ probes'[i] \in ProbeOutcomes
                      /\ results_'[i] =
                           IF probes'[i].state = "FAIL" THEN "UNDECIDED"
                           ELSE IF probes'[i].wdl = "WDL_WIN"
                             THEN MoverWins(HistIsBlackToMove(trees_[i]))
                           ELSE IF probes'[i].wdl = "WDL_LOSS"
                             THEN OpponentWins(HistIsBlackToMove(trees_[i]))
                           ELSE "DRAW"
                 ELSE probes'[i] = NoProbe /\ results_'[i] = "UNDECIDED"
      /\ (vpc = "submit" /\ vpc' # "submit") =>
           /\ \A k \in DOMAIN comp'.inputs :
                results_[comp'.inputs[k].game] = "UNDECIDED"
           /\ \A i \in DOMAIN trees_ :
                (probes[i].state = "FAIL" /\ Advanced(i)) =>
                  \A c \in WaveInputs :
                    c.game = i =>
                      \E k \in DOMAIN comp'.inputs : comp'.inputs[k] = c
      /\ \A i \in DOMAIN trees_ :
           results_[i] \in Decided => trees_'[i] = trees_[i] ]_vars

\* A wave is about to apply its moves: the tablebase said game 1 is lost for
\* its side to move, so the other side has won it and none of its positions
\* was submitted; the probe of game 2 failed and its positions were.
Wit_C15 ==
  /\ vpc = "select" /\ Len(trees_) = 2
  /\ probes[1] = [state |-> "OK", wdl |-> "WDL_LOSS"]
  /\ results_[1] = OpponentWins(HistIsBlackToMove(trees_[1]))
  /\ ComputeGameResult(trees_[1]) = "UNDECIDED"
  /\ probes[2].state = "FAIL" /\ results_[2] = "UNDECIDED"
  /\ comp.inputs # <<>>
  /\ \A k \in DOMAIN comp.inputs : comp.inputs[k].game = 2

\* C16: Play() holds the mutex exactly while it tests abort_, at the start of
\* a wave, and abort_ changes only while Abort() holds the mutex; once
\* Abort() has returned no wave is started (the test at the start of a wave
\* never lets Play() on), and Play() returns.
Thm_C16 ==
  /\ [](mutex_ = "play" <=> vpc = "check")
  /\ [][ /\ abort_' # abort_ => mutex_ = "abort"
         /\ apc = "returned" => ~(vpc = "check" /\ vpc' = "outcome")
         /\ (apc = "returned" /\ vpc = "check") => vpc' \in {"check", "done"}
       ]_vars
  /\ (apc = "returned") ~> (vpc = "done")

\* Abort() has returned while a wave with two games is between its
\* ComputeBlocking and the application of its moves.
Wit_C16 ==
  /\ apc = "returned" /\ abort_ /\ mutex_ = "free"
  /\ vpc = "select"
  /\ Len(trees_) = 2 /\ Advanced(1) /\ Advanced(2)

\* The games the outcome pass left undecided, and those of them the wave
\* leaves unmoved because the other side is to move.
Undecided == {i \in DOMAIN results_ : results_[i] = "UNDECIDED"}
Deferred ==
  {i \in Undecided : HistIsBlackToMove(trees_[i]) # blacks_move}

\* C20: once a wave has ended, all games whose result is UNDECIDED have the
\* same side to move, and this stays so up to the selection pass of the next
\* wave.  A wave that defers a game is the first one: when a wave starts to
\* submit after an earlier computation, no undecided game is deferred; the set
\* of deferred games is the same when the selection pass runs, and that pass
\* gives one more move to every undecided game that is not deferred.
Thm_C20 ==
  /\ []((comp # NoComputation /\ vpc \notin {"compute", "select"}) =>
          \A i, j \in Undecided :
            HistIsBlackToMove(trees_[i]) = HistIsBlackToMove(trees_[j]))
  /\ []((vpc = "submit" /\ comp # NoComputation) => Deferred = {})
  /\ [][ /\ (vpc \in {"submit", "compute"}) =>
              /\ vpc' \in {"submit", "compute", "select"}
              /\ Deferred' = Deferred /\ Undecided' = Undecided
         /\ (vpc = "select" /\ vpc' # "select") =>
              /\ vpc' = "wave"
              /\ \A i \in Undecided \ Deferred :
                   /\ Len(trees_'[i].moves) = Len(trees_[i].moves) + 1
                   /\ SubSeq(trees_'[i].moves, 1, Len(trees_[i].moves))
                        = trees_[i].moves
              /\ \A i \in Deferred : trees_'[i] = trees_[i] ]_vars

\* The second wave is about to select: game 1 got its first move in the first
\* wave, game 2 was deferred as its opening made it, and both games, still
\* undecided, now move together.
Wit_C20 ==
  /\ vpc = "select"
  /\ Len(trees_) = 2
  /\ Undecided = {1, 2} /\ Deferred = {}
  /\ trees_[1] \in {[black |-> FALSE, moves |-> <<m>>] : m \in Moves \ {1}}
  /\ trees_[2] = [black |-> FALSE, moves |-> <<1>>]

\* The (game, position) pair a GetQVal call was made for.
ReadFor(rd) == [game |-> rd.game, position |-> rd.position]

\* The position a candidate position continues.
Parent(h) == [h EXCEPT !.moves = SubSeq(h.moves, 1, Len(h.moves) - 1)]

\* C21: the selection pass reads the outputs 0, 1, 2, ... in this order, the
\* k-th read being made for the game and the position that were submitted as
\* the k-th input; when the pass ends comp_idx and the number of reads equal
\* the number of inputs, and every candidate position of the wave that is not
\* terminal has been read for exactly once.  Reads are made in the selection
\* pass only.
Thm_C21 ==
  [][ /\ (vpc = "select" /\ vpc' # "select") =>
           /\ comp' = comp
           /\ Len(reads') = Len(comp.inputs)
           /\ comp_idx' = Len(comp.inputs)
           /\ \A k \in DOMAIN reads' :
                /\ reads'[k].idx = k - 1
                /\ ReadFor(reads'[k]) = comp.inputs[k]
           /\ \A c \in WaveInputs :
                Cardinality({k \in DOMAIN reads' : ReadFor(reads'[k]) = c}) = 1
      /\ (reads' # reads /\ reads' # <<>>) => vpc = "select" ]_vars

\* A wave of two games has ended.  Game 1 had a continuation that ends the
\* game and was not submitted, so the reads of game 2 start where the reads
\* of game 1 stop and not at the number of edges of game 1.
Wit_C21 ==
  /\ vpc = "wave"
  /\ \E k \in DOMAIN reads : reads[k].game = 1
  /\ \E k \in DOMAIN reads : reads[k].game = 2 /\ reads[k].idx >= 1
  /\ \E k \in DOMAIN reads :
       /\ reads[k].game = 1
       /\ \E m \in LegalMoves(Parent(reads[k].position)) :
            /\ ComputeGameResult(Append1(Parent(reads[k].position), m))
                 # "UNDECIDED"

====
